---- MODULE Spec2Model ----
(***************************************************************************)
(* EmojiUploader: main.py starts one EmojiManager, whose                   *)
(* process_images_in_directory reconciles a local image directory with the *)
(* application's remote emoji collection through a persisted cache.        *)
(*                                                                         *)
(* One process run is: main -> EmojiManager.__init__ (loads the cache      *)
(* file) -> list request -> directory scan -> deletion pass -> save ->     *)
(* creation/update pass.  Every remote call is awaited, so a call and its  *)
(* response are one step.  Between two process runs the local directory    *)
(* may be edited; during a run it is not.                                  *)
(*                                                                         *)
(* The remote service is outside the repository.  It answers every request *)
(* with success or with an error status, as it chooses, except that it     *)
(* cannot confirm the deletion of an emoji it does not hold; ids are never *)
(* reused.  Whether it keeps emoji names unique is left open (uniqueNames).*)
(* Exceptions the code does not catch (a dropped connection, a corrupt or  *)
(* unwritable cache file) abort the process and are not modelled: a run    *)
(* here is a run that returns.                                             *)
(***************************************************************************)
EXTENDS Integers, Sequences, FiniteSets, TLC

\* ------------------------------------------------------------------ bounds

\* Remote ids 1..InitIds may exist before the first run; the remote service
\* hands out InitIds+1, InitIds+2, ... up to MaxId to created emojis.
InitIds == 2
MaxId == 3
\* At most MaxFiles files are in the directory at once.
MaxFiles == 2

\* ------------------------------------------------------------ value domains

Stems == {"a", "b"}

\* A filename is its stem followed by its extension: "a" ++ ".png".
FileNames ==
    { [stem |-> "a", ext |-> ".png"], [stem |-> "a", ext |-> ".gif"],
      [stem |-> "b", ext |-> ".png"], [stem |-> "b", ext |-> ".txt"] }

\* File contents are byte strings; <<>> is the empty file.
Bytes == { <<>>, <<1>>, <<2>> }

\* What the directory holds under a filename: nothing, a file that cannot be
\* opened for reading, or readable bytes.
Absent == [kind |-> "absent", bytes |-> <<>>]
Denied == [kind |-> "denied", bytes |-> <<>>]
Readable(b) == [kind |-> "file", bytes |-> b]

\* The contents each filename ranges over in the model.
ContentsOf(f) ==
    IF f = [stem |-> "a", ext |-> ".png"]
    THEN {Absent, Denied} \cup { Readable(b) : b \in Bytes }
    ELSE IF f = [stem |-> "a", ext |-> ".gif"]
    THEN {Absent, Readable(<<2>>)}
    ELSE {Absent, Readable(<<1>>)}

\* Python's None; every value it is compared with is a string.
None == "None"

\* hashlib.md5(bytes).hexdigest()
Md5(b) ==
    IF b = <<>> THEN "d41d8cd98f00b204e9800998ecf8427e"
    ELSE IF b = <<1>> THEN "55a54008ad1ba589aa210d2629c1df41"
    ELSE "9e688c58a5487b8eaf69c9e1005ad0bf"

\* base64.b64encode(bytes).decode('utf-8')
B64(b) ==
    IF b = <<>> THEN ""
    ELSE IF b = <<1>> THEN "AQ=="
    ELSE "Ag=="

\* (a slip: `is None` for `not`)
FalsyOnlyNone(v) == v = None

\* Python truthiness of a str-or-None value: `not v`.
Falsy(v) == v = None \/ v = ""

\* f.endswith((".png", ".jpg", ".jpeg", ".gif"))
SupportedExt == {".png", ".jpg", ".jpeg", ".gif"}
IsImage(f) == f.ext \in SupportedExt

\* os.path.splitext(filename)[0]
SplitextStem(f) == f.stem

\* All orders in which the elements of a finite set can be listed.
RECURSIVE Orders(_)
Orders(S) ==
    IF S = {} THEN { <<>> }
    ELSE UNION { { <<x>> \o t : t \in Orders(S \ {x}) } : x \in S }

\* dict operations on the cache: name -> [id, key]
EmptyDict == [n \in {} |-> 0]
DictSet(d, n, e) == [m \in (DOMAIN d) \cup {n} |-> IF m = n THEN e ELSE d[m]]
DictDel(d, n) == [m \in (DOMAIN d) \ {n} |-> d[m]]
\* self.emojis_cache.get(emoji_name, {}).get('key')
CacheKey(d, n) == IF n \in DOMAIN d THEN d[n].key ELSE None

VARIABLES
    \* configuration of the running process (settings.BOT_TOKEN, APPLICATION_ID)
    botToken, applicationId,
    \* the world outside the process
    dir,            \* filename -> Absent | Denied | Readable(bytes)
    remote,         \* the application's emojis: set of [id, name]
    uniqueNames,    \* whether the remote service keeps emoji names unique
                    \* (it then answers a create of a taken name with an
                    \* error); fixed for the life of the application
    nextId,         \* the id the remote service gives the next created emoji
    cacheFile,      \* content of emoji_cache.json
    \* the process
    pc,             \* where the process is
    configError,    \* main logged the configuration error
    constructed,    \* an EmojiManager was constructed (cache file read)
    emojis_cache,   \* EmojiManager.emojis_cache
    existing_emojis,\* sequence of [id, name] returned by the list call
    image_files,    \* sequence of filenames
    emojis_to_delete,
    i,              \* position of the creation/update loop in image_files
    errors,         \* number of lines _log_error appended in this run
    \* history, for stating the properties
    reqs,           \* remote requests of this run, in order
    cache0,         \* emojis_cache as loaded at construction
    file0,          \* cacheFile when the process started
    last,           \* "ok" while nothing changed since a run whose requests
                    \* all succeeded completed, else "none"
    prev            \* `last` as it was when this run started

vars == << botToken, applicationId, dir, remote, uniqueNames, nextId, cacheFile, pc,
           configError, constructed, emojis_cache, existing_emojis,
           image_files, emojis_to_delete, i, errors, reqs, cache0, file0,
           last, prev >>

world == << dir, remote, uniqueNames, nextId, cacheFile >>
config == << botToken, applicationId >>
history == << reqs, cache0, file0, last, prev >>
locals == << emojis_cache, existing_emojis, image_files, emojis_to_delete, i >>

\* ----------------------------------------------------------- initial state

\* Cache files and remote collections left by earlier use of the application.
InitEntry(n) == [id |-> IF n = "a" THEN 1 ELSE 2, key |-> Md5(<<1>>)]
InitCaches == { [n \in S |-> InitEntry(n)] : S \in SUBSET Stems }
InitRemotes ==
    { { [id |-> k, name |-> g[k]] : k \in { j \in 1..InitIds : g[j] # None } } :
        g \in [1..InitIds -> Stems \cup {None}] }

Init ==
    /\ botToken = "" /\ applicationId = ""
    /\ dir = [f \in FileNames |-> Absent]
    /\ uniqueNames \in BOOLEAN
    /\ remote \in InitRemotes
    /\ uniqueNames => \A e1, e2 \in remote : e1.name = e2.name => e1 = e2
    /\ nextId = InitIds + 1
    /\ cacheFile \in InitCaches
    /\ pc = "idle"
    /\ configError = FALSE
    /\ constructed = FALSE
    /\ emojis_cache = EmptyDict
    /\ existing_emojis = <<>>
    /\ image_files = <<>>
    /\ emojis_to_delete = <<>>
    /\ i = 0
    /\ errors = <<>>
    /\ reqs = <<>>
    /\ cache0 = EmptyDict
    /\ file0 = EmptyDict
    /\ last = "none"
    /\ prev = "none"

\* --------------------------------------------------- the local file system

\* Somebody edits the image directory while no process runs.
EditDirectory ==
    /\ pc = "idle"
    /\ \E f \in FileNames : \E c \in ContentsOf(f) :
          /\ c # dir[f]
          /\ dir' = [dir EXCEPT ![f] = c]
          /\ Cardinality({ g \in FileNames : dir'[g] # Absent }) <= MaxFiles
    /\ last' = "none"
    /\ UNCHANGED << config, remote, uniqueNames, nextId, cacheFile, pc,
                    configError, constructed, locals, errors, reqs, cache0,
                    file0, prev >>

\* EmojiManager._generate_emoji_key: the digest, or None when the file
\* cannot be read (the exception is caught and logged).
GenerateEmojiKey(f) ==
    IF dir[f].kind = "file" THEN Md5(dir[f].bytes) ELSE None

\* EmojiManager._image_to_base64: None when the path does not exist or the
\* read raises.
ImageToBase64(f) ==
    IF dir[f].kind = "file" THEN B64(dir[f].bytes) ELSE None

\* ------------------------------------------------------------------- main

Tokens == {"", "tok"}
AppIds == {"", "app"}

\* (a slip: `and` for `or`)
ConfigMissingBoth(tok, app) == tok = "" /\ app = ""

\* main.py line 13: `not settings.BOT_TOKEN or not settings.APPLICATION_ID`
ConfigMissing(tok, app) == tok = "" \/ app = ""

\* main with a missing setting: log the error and return.
MainConfigError ==
    /\ pc = "idle"
    /\ \E tok \in Tokens, app \in AppIds :
          /\ ConfigMissing(tok, app)
          /\ botToken' = tok /\ applicationId' = app
    /\ configError' = TRUE
    /\ constructed' = FALSE
    /\ pc' = "exited"
    /\ reqs' = <<>>
    /\ errors' = <<>>
    /\ file0' = cacheFile
    /\ UNCHANGED << world, locals, cache0, last, prev >>

\* main with both settings: construct the EmojiManager, whose __init__
\* loads the cache file (json.load gives back the dict json.dump wrote:
\* string keys, string ids and digests), and enter
\* process_images_in_directory.
MainConstruct ==
    /\ pc = "idle"
    /\ \E tok \in Tokens, app \in AppIds :
          /\ ~ConfigMissing(tok, app)
          /\ botToken' = tok /\ applicationId' = app
    /\ configError' = FALSE
    /\ constructed' = TRUE
    /\ emojis_cache' = cacheFile
    /\ cache0' = cacheFile
    /\ file0' = cacheFile
    /\ reqs' = <<>>
    /\ errors' = <<>>
    /\ prev' = last
    /\ last' = "none"
    /\ pc' = "list"
    /\ UNCHANGED << world, existing_emojis, image_files, emojis_to_delete, i >>

\* ------------------------------------------------------ the remote service

\* One remote request as the history records it: `at` is the position in
\* image_files of the file the creation/update pass was handling, 0 before.
Req(op, id, name, image, at, ok) ==
    [op |-> op, id |-> id, name |-> name, image |-> image, at |-> at, ok |-> ok]

AllOk(rs) == \A k \in 1..Len(rs) : rs[k].ok

\* (a slip: the list is returned whatever the status)
GetApplicationEmojisAnyStatus ==
    /\ pc = "list"
    /\ \/ /\ existing_emojis' \in Orders(remote)
          /\ reqs' = Append(reqs, Req("list", 0, "", None, 0, TRUE))
          /\ errors' = errors
       \/ /\ existing_emojis' \in Orders(remote)
          /\ reqs' = Append(reqs, Req("list", 0, "", None, 0, FALSE))
          /\ errors' = Append(errors, "list")
    /\ pc' = "scan"
    /\ UNCHANGED << config, world, configError, constructed, emojis_cache,
                    image_files, emojis_to_delete, i, cache0, file0, last, prev >>

\* EmojiManager._get_application_emojis: the list on status 200, [] and a
\* logged error on any other status.
GetApplicationEmojis ==
    /\ pc = "list"
    /\ \/ /\ existing_emojis' \in Orders(remote)
          /\ reqs' = Append(reqs, Req("list", 0, "", None, 0, TRUE))
          /\ errors' = errors
       \/ /\ existing_emojis' = <<>>
          /\ reqs' = Append(reqs, Req("list", 0, "", None, 0, FALSE))
          /\ errors' = Append(errors, "list")
    /\ pc' = "scan"
    /\ UNCHANGED << config, world, configError, constructed, emojis_cache,
                    image_files, emojis_to_delete, i, cache0, file0, last, prev >>

\* EmojiManager._delete_emoji as a step of the caller: the DELETE request
\* for emoji_id on behalf of `name`, answered 204 (possible only while the
\* emoji exists) or with another status, which is logged after `errs`.
DeleteEmoji(emoji_id, name, at, errs) ==
    \E ok \in BOOLEAN :
        /\ ok => \E e \in remote : e.id = emoji_id
        /\ remote' = IF ok THEN { e \in remote : e.id # emoji_id } ELSE remote
        /\ reqs' = Append(reqs, Req("delete", emoji_id, name, None, at, ok))
        /\ errors' = IF ok THEN errs ELSE Append(errs, "delete")

\* ------------------------------------------- process_images_in_directory

\* (a slip: the extension is not looked at)
ImageFilesAnyExt(listing) == listing

\* line 116: the directory's entries with a supported extension
ImageFiles(listing) == { f \in listing : IsImage(f) }
\* line 117
ImageNamesInDirectory(files) == { SplitextStem(f) : f \in files }
\* (a slip: `in` for `not in`)
EmojisToDeleteInverted(cache, names) == { n \in DOMAIN cache : n \in names }

\* line 119
EmojisToDelete(cache, names) == { n \in DOMAIN cache : n \notin names }

\* lines 116-119: os.listdir returns the entries in no particular order; the
\* cache dict iterates in its insertion order, which the model does not track.
ScanDirectory ==
    /\ pc = "scan"
    /\ LET files == ImageFiles({ f \in FileNames : dir[f] # Absent }) IN
          /\ image_files' \in Orders(files)
          /\ emojis_to_delete' \in
                Orders(EmojisToDelete(emojis_cache, ImageNamesInDirectory(files)))
    /\ pc' = "deleting"
    /\ UNCHANGED << config, world, configError, constructed, emojis_cache,
                    existing_emojis, i, errors, history >>

\* (a slip: the cache entry is dropped only when the remote answered 204)
DeletionPassStepKeepsOnError ==
    /\ pc = "deleting"
    /\ emojis_to_delete # <<>>
    /\ LET emoji_name == Head(emojis_to_delete) IN
          /\ DeleteEmoji(emojis_cache[emoji_name].id, emoji_name, 0, errors)
          /\ emojis_cache' = IF reqs'[Len(reqs')].ok
                                THEN DictDel(emojis_cache, emoji_name)
                                ELSE emojis_cache
    /\ emojis_to_delete' = Tail(emojis_to_delete)
    /\ UNCHANGED << config, dir, uniqueNames, nextId, cacheFile, pc,
                    configError, constructed, existing_emojis, image_files, i,
                    cache0, file0, last, prev >>

\* lines 121-125: one iteration of the deletion pass; the cache entry is
\* dropped whatever the remote answered.
DeletionPassStep ==
    /\ pc = "deleting"
    /\ emojis_to_delete # <<>>
    /\ LET emoji_name == Head(emojis_to_delete) IN
          /\ DeleteEmoji(emojis_cache[emoji_name].id, emoji_name, 0, errors)
          /\ emojis_cache' = DictDel(emojis_cache, emoji_name)
    /\ emojis_to_delete' = Tail(emojis_to_delete)
    /\ UNCHANGED << config, dir, uniqueNames, nextId, cacheFile, pc,
                    configError, constructed, existing_emojis, image_files, i,
                    cache0, file0, last, prev >>

\* (a slip: the cache is not saved after the deletion pass)
SaveAfterDeletionsNoSave ==
    /\ pc = "deleting"
    /\ emojis_to_delete = <<>>
    /\ cacheFile' = cacheFile
    /\ i' = 1
    /\ pc' = "loop"
    /\ UNCHANGED << config, dir, remote, uniqueNames, nextId, configError,
                    constructed, emojis_cache, existing_emojis, image_files,
                    emojis_to_delete, errors, history >>

\* (a slip: the update pass starts while deletions are still pending)
SaveAfterDeletionsEarly ==
    /\ pc = "deleting"
    /\ cacheFile' = emojis_cache
    /\ i' = 1
    /\ pc' = "loop"
    /\ UNCHANGED << config, dir, remote, uniqueNames, nextId, configError,
                    constructed, emojis_cache, existing_emojis, image_files,
                    emojis_to_delete, errors, history >>

\* line 127: the single save after the deletion pass
SaveAfterDeletions ==
    /\ pc = "deleting"
    /\ emojis_to_delete = <<>>
    /\ cacheFile' = emojis_cache
    /\ i' = 1
    /\ pc' = "loop"
    /\ UNCHANGED << config, dir, remote, uniqueNames, nextId, configError,
                    constructed, emojis_cache, existing_emojis, image_files,
                    emojis_to_delete, errors, history >>

\* line 133: any(emoji["name"] == emoji_name for emoji in existing_emojis)
EmojiExists(name) ==
    \E k \in 1..Len(existing_emojis) : existing_emojis[k].name = name

\* line 135: the first listed emoji of that name
ExistingEmoji(name) ==
    LET k == CHOOSE j \in 1..Len(existing_emojis) :
                /\ existing_emojis[j].name = name
                /\ \A h \in 1..(j - 1) : existing_emojis[h].name # name
    IN  existing_emojis[k]

\* (a slip: == for !=)
KeySame(existing_emoji_key, new_emoji_key) ==
    existing_emoji_key = new_emoji_key

\* (a slip: a missing cache entry is taken for "unchanged")
KeyDiffersIfCached(existing_emoji_key, new_emoji_key) ==
    existing_emoji_key # None /\ existing_emoji_key # new_emoji_key

\* line 139: existing_emoji_key != new_emoji_key
KeyDiffers(existing_emoji_key, new_emoji_key) ==
    existing_emoji_key # new_emoji_key

\* The error log after _generate_emoji_key(f) ran.
AfterKeyOf(f) ==
    IF GenerateEmojiKey(f) = None THEN Append(errors, "key") ELSE errors

\* (a slip: the cache is not saved after a create)
CreateApplicationEmojiNoSave(f, emoji_name, errs) ==
    LET image_base64 == ImageToBase64(f) IN
    IF Falsy(image_base64)
    THEN /\ errors' = IF image_base64 = None THEN Append(errs, "b64") ELSE errs
         /\ UNCHANGED << remote, nextId, emojis_cache, cacheFile, reqs >>
    ELSE \E ok \in BOOLEAN :
           /\ ok => /\ nextId <= MaxId
                    /\ uniqueNames => \A e \in remote : e.name # emoji_name
           /\ reqs' = Append(reqs, Req("create", IF ok THEN nextId ELSE 0,
                                       emoji_name, image_base64, i, ok))
           /\ errors' = errs
           /\ cacheFile' = cacheFile
           /\ IF ok
              THEN /\ remote' = remote \cup {[id |-> nextId, name |-> emoji_name]}
                   /\ nextId' = nextId + 1
                   /\ emojis_cache' =
                        DictSet(emojis_cache, emoji_name,
                                [id |-> nextId, key |-> GenerateEmojiKey(f)])
              ELSE UNCHANGED << remote, nextId, emojis_cache >>

\* (a slip: a failed create forgets the name's cache entry and saves)
CreateApplicationEmojiForgets(f, emoji_name, errs) ==
    LET image_base64 == ImageToBase64(f)
        forgot == DictDel(emojis_cache, emoji_name)
    IN
    IF Falsy(image_base64)
    THEN /\ errors' = IF image_base64 = None THEN Append(errs, "b64") ELSE errs
         /\ UNCHANGED << remote, nextId, emojis_cache, cacheFile, reqs >>
    ELSE \E ok \in BOOLEAN :
           /\ ok => /\ nextId <= MaxId
                    /\ uniqueNames => \A e \in remote : e.name # emoji_name
           /\ reqs' = Append(reqs, Req("create", IF ok THEN nextId ELSE 0,
                                       emoji_name, image_base64, i, ok))
           /\ errors' = errs
           /\ IF ok
              THEN LET cache == DictSet(emojis_cache, emoji_name,
                                       [id |-> nextId, key |-> GenerateEmojiKey(f)])
                   IN  /\ remote' = remote \cup {[id |-> nextId, name |-> emoji_name]}
                       /\ nextId' = nextId + 1
                       /\ emojis_cache' = cache
                       /\ cacheFile' = cache
              ELSE /\ UNCHANGED << remote, nextId >>
                   /\ emojis_cache' = forgot
                   /\ cacheFile' = forgot

\* EmojiManager._create_application_emoji(image_path, emoji_name), with the
\* error log `errs` before the call.  No request is sent when the image
\* encodes to nothing; on 201 the cache entry is written and the cache
\* saved; any other status (the only answer once the model's ids are used
\* up, or for a taken name when the service keeps names unique) is printed
\* and changes nothing.
CreateApplicationEmoji(f, emoji_name, errs) ==
    LET image_base64 == ImageToBase64(f) IN
    IF Falsy(image_base64)
    THEN /\ errors' = IF image_base64 = None THEN Append(errs, "b64") ELSE errs
         /\ UNCHANGED << remote, nextId, emojis_cache, cacheFile, reqs >>
    ELSE \E ok \in BOOLEAN :
           /\ ok => /\ nextId <= MaxId
                    /\ uniqueNames => \A e \in remote : e.name # emoji_name
           /\ reqs' = Append(reqs, Req("create", IF ok THEN nextId ELSE 0,
                                       emoji_name, image_base64, i, ok))
           /\ IF ok
              THEN LET emoji_key == GenerateEmojiKey(f)
                       cache == IF Falsy(emoji_key) THEN emojis_cache
                                ELSE DictSet(emojis_cache, emoji_name,
                                             [id |-> nextId, key |-> emoji_key])
                   IN  /\ remote' = remote \cup {[id |-> nextId, name |-> emoji_name]}
                       /\ nextId' = nextId + 1
                       /\ emojis_cache' = cache
                       /\ cacheFile' = cache
                       /\ errors' = IF emoji_key = None THEN Append(errs, "key")
                                    ELSE errs
              ELSE /\ UNCHANGED << remote, nextId, emojis_cache, cacheFile >>
                   /\ errors' = errs

\* lines 134-144, else branch: the emoji is listed and the keys agree.
KeepEmoji ==
    /\ pc = "loop"
    /\ i <= Len(image_files)
    /\ LET f == image_files[i]
           emoji_name == SplitextStem(f)
       IN  /\ EmojiExists(emoji_name)
           /\ ~KeyDiffers(CacheKey(emojis_cache, emoji_name), GenerateEmojiKey(f))
           /\ errors' = AfterKeyOf(f)
    /\ i' = i + 1
    /\ UNCHANGED << config, world, pc, configError, constructed, emojis_cache,
                    existing_emojis, image_files, emojis_to_delete, history >>

\* (a variant: the replaced emoji's cache entry is dropped with the delete)
ReplaceDeleteDropsEntry ==
    /\ pc = "loop"
    /\ i <= Len(image_files)
    /\ LET f == image_files[i]
           emoji_name == SplitextStem(f)
       IN  /\ EmojiExists(emoji_name)
           /\ KeyDiffers(CacheKey(emojis_cache, emoji_name), GenerateEmojiKey(f))
           /\ DeleteEmoji(ExistingEmoji(emoji_name).id, emoji_name, i, AfterKeyOf(f))
           /\ emojis_cache' = DictDel(emojis_cache, emoji_name)
    /\ pc' = "create"
    /\ UNCHANGED << config, dir, uniqueNames, nextId, cacheFile, configError,
                    constructed, existing_emojis, image_files, emojis_to_delete,
                    i, cache0, file0, last, prev >>

\* lines 139-141: the emoji is listed and the keys differ: delete the
\* listed emoji; the create follows.
ReplaceDelete ==
    /\ pc = "loop"
    /\ i <= Len(image_files)
    /\ LET f == image_files[i]
           emoji_name == SplitextStem(f)
       IN  /\ EmojiExists(emoji_name)
           /\ KeyDiffers(CacheKey(emojis_cache, emoji_name), GenerateEmojiKey(f))
           /\ DeleteEmoji(ExistingEmoji(emoji_name).id, emoji_name, i, AfterKeyOf(f))
    /\ pc' = "create"
    /\ UNCHANGED << config, dir, uniqueNames, nextId, cacheFile, configError,
                    constructed, locals, cache0, file0, last, prev >>

\* line 142: the create of a replacement
ReplaceCreate ==
    /\ pc = "create"
    /\ LET f == image_files[i] IN
          CreateApplicationEmoji(f, SplitextStem(f), errors)
    /\ i' = i + 1
    /\ pc' = "loop"
    /\ UNCHANGED << config, dir, uniqueNames, configError, constructed,
                    existing_emojis, image_files, emojis_to_delete, cache0,
                    file0, last, prev >>

\* lines 145-146: no emoji of that name is listed
CreateNew ==
    /\ pc = "loop"
    /\ i <= Len(image_files)
    /\ LET f == image_files[i] IN
          /\ ~EmojiExists(SplitextStem(f))
          /\ CreateApplicationEmoji(f, SplitextStem(f), errors)
    /\ i' = i + 1
    /\ UNCHANGED << config, dir, uniqueNames, pc, configError, constructed,
                    existing_emojis, image_files, emojis_to_delete, cache0,
                    file0, last, prev >>

\* The loop is exhausted: process_images_in_directory returns.
Finish ==
    /\ pc = "loop"
    /\ i > Len(image_files)
    /\ pc' = "done"
    /\ last' = IF AllOk(reqs) THEN "ok" ELSE "none"
    /\ UNCHANGED << config, world, configError, constructed, locals, errors,
                    reqs, cache0, file0, prev >>

\* The process ends; only the world outside it remains.
Exit ==
    /\ pc \in {"done", "exited"}
    /\ pc' = "idle"
    /\ botToken' = "" /\ applicationId' = ""
    /\ configError' = FALSE
    /\ constructed' = FALSE
    /\ emojis_cache' = EmptyDict
    /\ existing_emojis' = <<>>
    /\ image_files' = <<>>
    /\ emojis_to_delete' = <<>>
    /\ i' = 0
    /\ errors' = <<>>
    /\ reqs' = <<>>
    /\ cache0' = EmptyDict
    /\ file0' = EmptyDict
    /\ prev' = "none"
    /\ UNCHANGED << world, last >>

Next ==
    \/ EditDirectory
    \/ MainConfigError
    \/ MainConstruct
    \/ GetApplicationEmojis
    \/ ScanDirectory
    \/ DeletionPassStep
    \/ SaveAfterDeletions
    \/ KeepEmoji
    \/ ReplaceDelete
    \/ ReplaceCreate
    \/ CreateNew
    \/ Finish
    \/ Exit

Spec == Init /\ [][Next]_vars

\* The same program on its first use: no cache file yet (or an empty one),
\* and a remote service that keeps the emoji names of an application unique.
InitFirstUse == Init /\ cacheFile = EmptyDict /\ uniqueNames
SpecFirstUse == InitFirstUse /\ [][Next]_vars

\* ------------------------------------------------- vocabulary of the claims

\* process_images_in_directory has returned.
RunEnded == pc = "done"

\* Positions of the run's requests of one kind.
Deletes == { k \in 1..Len(reqs) : reqs[k].op = "delete" }
Creates == { k \in 1..Len(reqs) : reqs[k].op = "create" }

\* The list request of this run was answered 200.
ListOk == Len(reqs) >= 1 /\ reqs[1].op = "list" /\ reqs[1].ok

\* Logical names of the supported image files the directory holds.
LocalNames ==
    { f.stem : f \in { g \in FileNames : dir[g] # Absent /\ g.ext \in SupportedExt } }

\* Names in the listing fetched at the start of the run.
ListedNames == { existing_emojis[k].name : k \in 1..Len(existing_emojis) }

\* Positions in image_files of the files with logical name n.
FilesNamed(n) == { j \in 1..Len(image_files) : image_files[j].stem = n }

\* The first listed emoji named n.
FirstListed(n) ==
    existing_emojis[CHOOSE j \in 1..Len(existing_emojis) :
        /\ existing_emojis[j].name = n
        /\ \A h \in 1..(j - 1) : existing_emojis[h].name # n]

\* No two image files of the listing share a logical name.
UniqueNames ==
    \A j, h \in 1..Len(image_files) :
        image_files[j].stem = image_files[h].stem => j = h

\* ---------------------------------------------------------------------- C1
\* C1: when a run follows a completed run with no change to the directory or
\* the remote in between, it issues no create and no delete request.  Stated
\* here in the case most favourable to the claim: every request of the first
\* run succeeded and the second run's list request succeeds.
C1_SecondRunIsQuiet ==
    (RunEnded /\ prev = "ok" /\ ListOk) => (Deletes = {} /\ Creates = {})

\* What does hold on first use: the second run is quiet when no two image
\* files share a logical name.
QuietWhenNamesUnique ==
    (RunEnded /\ prev = "ok" /\ ListOk /\ UniqueNames)
        => (Deletes = {} /\ Creates = {})

\* ---------------------------------------------------------------------- C2
\* The delete requests issued on behalf of name n: by the deletion pass for
\* the cached name n, by the update pass for an image file named n.
DeletesFor(n) == { k \in Deletes : reqs[k].name = n }

\* C2: for every name that is a key of the cache when the run starts and is
\* not the logical name of a supported image file of the directory, the run
\* issues exactly one delete request on behalf of that name, addressed to the
\* id of that cache entry, and when the run ends the name is a key neither of
\* the cache nor of the cache file.
C2_DeletionComplete ==
    RunEnded =>
        \A n \in (DOMAIN cache0) \ LocalNames :
            /\ Cardinality(DeletesFor(n)) = 1
            /\ \A k \in DeletesFor(n) : reqs[k].id = cache0[n].id
            /\ n \notin DOMAIN emojis_cache
            /\ n \notin DOMAIN cacheFile

\* A run has ended that deleted a cached name whose only local file has an
\* unsupported extension, next to a cached name that stayed.
C2_Witness ==
    /\ RunEnded
    /\ "b" \in DOMAIN cache0 /\ "b" \notin LocalNames
    /\ dir[[stem |-> "b", ext |-> ".txt"]] # Absent
    /\ DeletesFor("b") # {}
    /\ "a" \in DOMAIN emojis_cache

\* ---------------------------------------------------------------------- C3
\* The create requests issued while the loop handled image_files[j].
CreatesAt(j) == { k \in Creates : reqs[k].at = j }
DeletesAt(j) == { k \in Deletes : reqs[k].at = j }

\* C3 as claimed: every local image file, whatever its content, whose name is
\* not in the listing gets exactly one create request.
C3_EveryUnlistedImageCreated ==
    RunEnded =>
        \A j \in 1..Len(image_files) :
            image_files[j].stem \notin ListedNames
                => Cardinality(CreatesAt(j)) = 1

\* C3 as amended: every local image file that can be read and is not empty,
\* and whose name is not in the listing, gets exactly one create request,
\* carrying its logical name and the base64 text of its bytes; an unreadable
\* or empty one gets none.
C3_CreationComplete ==
    RunEnded =>
        \A j \in 1..Len(image_files) :
            LET f == image_files[j] IN
            f.stem \notin ListedNames =>
                IF dir[f].kind = "file" /\ dir[f].bytes # <<>>
                THEN /\ Cardinality(CreatesAt(j)) = 1
                     /\ \A k \in CreatesAt(j) :
                          /\ reqs[k].name = f.stem
                          /\ reqs[k].image =
                               (IF dir[f].bytes = <<1>> THEN "AQ==" ELSE "Ag==")
                ELSE CreatesAt(j) = {}

\* A run has ended that created two unlisted images, although the remote
\* held another emoji.
C3_Witness ==
    /\ RunEnded
    /\ Len(image_files) = 2
    /\ existing_emojis # <<>>
    /\ \A j \in 1..2 : /\ image_files[j].stem \notin ListedNames
                        /\ CreatesAt(j) # {}

\* ---------------------------------------------------------------------- C4
CreatesFor(n) == { k \in Creates : reqs[k].name = n }

\* image_files[j] is a readable file whose name is listed and cached, with a
\* fingerprint other than the cached one.
Changed(j) ==
    LET f == image_files[j] IN
    /\ f.stem \in DOMAIN cache0
    /\ f.stem \in ListedNames
    /\ dir[f].kind = "file"
    /\ Md5(dir[f].bytes) # cache0[f.stem].key

\* For image_files[j]: one delete of the listed emoji, then one create with
\* the file's content, and no other delete or create for the name.
ReplacedOnce(j) ==
    LET f == image_files[j] IN
    /\ Cardinality(DeletesFor(f.stem)) = 1
    /\ Cardinality(CreatesFor(f.stem)) = 1
    /\ \E d \in DeletesAt(j), c \in CreatesAt(j) :
          /\ c = d + 1
          /\ reqs[d].id = FirstListed(f.stem).id
          /\ reqs[c].name = f.stem
          /\ reqs[c].image = B64(dir[f].bytes)

\* The cache entry and the saved entry for image_files[j] hold the id the
\* create request returned and the file's fingerprint.
Recorded(j) ==
    LET f == image_files[j] IN
    \E c \in CreatesAt(j) :
        /\ reqs[c].ok
        /\ f.stem \in DOMAIN emojis_cache
        /\ emojis_cache[f.stem] = [id |-> reqs[c].id, key |-> Md5(dir[f].bytes)]
        /\ cacheFile = emojis_cache

\* C4 as claimed: whenever a cached and listed name's local file has a new
\* fingerprint, the run issues one delete of the old emoji followed by one
\* create with the new content, and ends with the cache entry holding the new
\* id and the new fingerprint.
C4_ReplacementAlwaysRecorded ==
    RunEnded =>
        \A j \in 1..Len(image_files) :
            Changed(j) => (ReplacedOnce(j) /\ Recorded(j))

\* C4 as amended: whenever a cached and listed name's local file has a new
\* fingerprint, is not empty and is the only image file of that name, the run
\* issues exactly one delete request, for the listed emoji of that name,
\* directly followed by exactly one create request with the new content; and
\* if that create request succeeds, the run ends with the cache entry (in
\* memory and saved) holding the returned id and the new fingerprint.
C4_Replacement ==
    RunEnded =>
        \A j \in 1..Len(image_files) :
            ( /\ Changed(j)
              /\ dir[image_files[j]].bytes # <<>>
              /\ FilesNamed(image_files[j].stem) = {j} )
            => /\ ReplacedOnce(j)
               /\ (\A c \in CreatesAt(j) : reqs[c].ok) => Recorded(j)

\* A run has ended that replaced a changed image and recorded the new emoji.
C4_Witness ==
    /\ RunEnded
    /\ \E j \in 1..Len(image_files) :
          /\ Changed(j)
          /\ FilesNamed(image_files[j].stem) = {j}
          /\ ReplacedOnce(j)
          /\ Recorded(j)
          /\ \E d \in DeletesAt(j) : reqs[d].ok

\* ---------------------------------------------------------------------- C5
RemoteNames == { e.name : e \in remote }
RemoteIds == { e.id : e \in remote }

\* C5 as claimed: after a run whose list, delete and create requests all
\* succeeded, the remote emoji names are exactly the local logical names.
C5_RemoteMirrorsDirectory ==
    (RunEnded /\ AllOk(reqs)) => RemoteNames = LocalNames

\* Ids the deletion pass is to delete: those of the cached names with no
\* local image.
OrphanIds == { cache0[n].id : n \in (DOMAIN cache0) \ LocalNames }

\* C5 as amended: after a run whose list, delete and create requests all
\* succeeded, (a) every readable, non-empty local image whose name was not
\* listed has a remote emoji of its name; (b) every name cached at the start
\* with no local image is gone from the cache and its cached id is gone from
\* the remote; (c) every other listed emoji whose name has no local image is
\* still in the remote: the run deletes it only through a cache entry.
C5_Convergence ==
    (RunEnded /\ AllOk(reqs)) =>
        /\ \A j \in 1..Len(image_files) :
              LET f == image_files[j] IN
              ( /\ f.stem \notin ListedNames
                /\ dir[f].kind = "file"
                /\ dir[f].bytes # <<>> ) => f.stem \in RemoteNames
        /\ \A n \in (DOMAIN cache0) \ LocalNames :
              /\ n \notin DOMAIN emojis_cache
              /\ cache0[n].id \notin RemoteIds
        /\ \A k \in 1..Len(existing_emojis) :
              ( /\ existing_emojis[k].name \notin LocalNames
                /\ existing_emojis[k].id \notin OrphanIds )
              => existing_emojis[k] \in remote

\* A fully successful run has ended that created an image, deleted a cached
\* orphan and left an untracked remote emoji with no local image in place.
C5_Witness ==
    /\ RunEnded /\ AllOk(reqs)
    /\ Creates # {}
    /\ OrphanIds # {}
    /\ \E k \in 1..Len(existing_emojis) :
          /\ existing_emojis[k].name \notin LocalNames
          /\ existing_emojis[k].id \notin OrphanIds
          /\ existing_emojis[k] \in remote

\* ---------------------------------------------------------------------- C6
\* C6: on an application only this program has changed, started with an
\* empty cache, at the end of every run every cache entry name -> id
\* designates a remote emoji that exists with that id and that name.
C6_CacheDesignatesRemote ==
    RunEnded =>
        \A n \in DOMAIN emojis_cache :
            [id |-> emojis_cache[n].id, name |-> n] \in remote

\* ---------------------------------------------------------------------- C7
\* C7 as claimed: a local image with no cache entry whose name is in the
\* listing gets no create request.
C7_UncachedListedNotCreated ==
    RunEnded =>
        \A j \in 1..Len(image_files) :
            LET n == image_files[j].stem IN
            (n \notin DOMAIN cache0 /\ n \in ListedNames) => CreatesFor(n) = {}

\* C7 as amended: a local image with no cache entry whose name is in the
\* listing is replaced, not left alone: if it is readable (and the only image
\* file of its name) the run deletes the listed emoji of that name and, unless
\* the file is empty, directly follows with a create request for the name; if
\* it is unreadable the run issues nothing for it.  A create request that
\* does not directly follow a delete for the same file is issued only for a
\* name that is not in the listing.
C7_UncachedListedReplaced ==
    RunEnded =>
        /\ \A j \in 1..Len(image_files) :
              LET f == image_files[j] IN
              ( /\ f.stem \notin DOMAIN cache0
                /\ f.stem \in ListedNames
                /\ FilesNamed(f.stem) = {j} )
              => IF dir[f].kind = "file"
                 THEN \E d \in Deletes :
                        /\ DeletesAt(j) = {d}
                        /\ reqs[d].id = FirstListed(f.stem).id
                        /\ CreatesAt(j) =
                             (IF dir[f].bytes = <<>> THEN {} ELSE {d + 1})
                 ELSE DeletesAt(j) = {} /\ CreatesAt(j) = {}
        /\ \A c \in Creates :
              reqs[c].name \in ListedNames
                <=> (c - 1 \in Deletes /\ reqs[c - 1].at = reqs[c].at)

\* A run has ended that replaced a listed emoji for which it had no cache
\* entry.
C7_Witness ==
    /\ RunEnded
    /\ \E j \in 1..Len(image_files) :
          LET n == image_files[j].stem IN
          /\ n \notin DOMAIN cache0
          /\ n \in ListedNames
          /\ DeletesAt(j) # {}
          /\ \E c \in CreatesAt(j) : reqs[c].ok

\* ---------------------------------------------------------------------- C8
\* C8: while a process runs whose bot token or application id is empty, it
\* has logged the configuration error and returned from main, it has issued
\* no list, create or delete request, it has constructed no EmojiManager, and
\* the cache file is what it was when the process started.
C8_ConfigGuard ==
    (pc # "idle" /\ (botToken = "" \/ applicationId = "")) =>
        /\ pc = "exited"
        /\ configError
        /\ reqs = <<>>
        /\ ~constructed
        /\ cacheFile = file0

\* A process with a token but no application id has exited, on an application
\* that has remote emojis, a cache file and local images.
C8_Witness ==
    /\ pc = "exited"
    /\ botToken # "" /\ applicationId = ""
    /\ remote # {} /\ cacheFile # EmptyDict /\ LocalNames # {}

\* ---------------------------------------------------------------------- C9
\* The create that follows the delete at position d of the log failed: it
\* was answered with an error, or never sent.
CreateFailedAfter(d) ==
    \/ d + 1 \in Creates /\ reqs[d + 1].at = reqs[d].at /\ ~reqs[d + 1].ok
    \/ CreatesAt(reqs[d].at) = {}

\* C9: when, in the creation/update pass, the delete of the listed emoji
\* succeeds and the create that follows for the same name fails, the run ends
\* with no remote emoji and no cache entry for that name.  Stated for a name
\* that only one image file has, so that no other file recreates it.
C9_FailedReplacementUntracked ==
    RunEnded =>
        \A d \in Deletes :
            ( /\ reqs[d].at > 0
              /\ reqs[d].ok
              /\ CreateFailedAfter(d)
              /\ FilesNamed(reqs[d].name) = {reqs[d].at} )
            => /\ reqs[d].name \notin RemoteNames
               /\ reqs[d].name \notin DOMAIN emojis_cache

\* --------------------------------------------------------------------- C10
\* C10: for a local image that cannot be read, the run issues no delete and
\* no create request for its name, and leaves the cache entry of that name as
\* it was.  Stated for a name that only one image file has, so that every
\* request for the name is on behalf of the unreadable file.
C10_ReadErrorIssuesNothing ==
    RunEnded =>
        \A j \in 1..Len(image_files) :
            LET f == image_files[j] IN
            (dir[f].kind = "denied" /\ FilesNamed(f.stem) = {j}) =>
                /\ DeletesFor(f.stem) = {} /\ CreatesFor(f.stem) = {}
                /\ CacheKey(emojis_cache, f.stem) = CacheKey(cache0, f.stem)

\* --------------------------------------------------------------------- C11
\* The step is a call of _create_application_emoji (line 142 or line 146).
CreateCall == ReplaceCreate \/ CreateNew

\* The call returned None: no request was sent, or the request was answered
\* with a status other than 201.
CreateReturnedNone == reqs' = reqs \/ ~reqs'[Len(reqs')].ok

\* C11: every call of _create_application_emoji that returns None (the image
\* could not be encoded, or the answer was not 201) leaves the in-memory
\* cache and the cache file exactly as they were, and the loop goes on to the
\* next image.
C11_FailedCreateKeepsCache ==
    [][ (CreateCall /\ CreateReturnedNone) =>
            /\ emojis_cache' = emojis_cache
            /\ cacheFile' = cacheFile
            /\ pc' = "loop" /\ i' = i + 1 ]_vars

\* A create request for a name that has a cache entry was answered with an
\* error, and the loop has moved past that image.
C11_Witness ==
    /\ pc = "loop"
    /\ \E c \in Creates :
          /\ ~reqs[c].ok
          /\ reqs[c].name \in DOMAIN emojis_cache
          /\ i > reqs[c].at

\* --------------------------------------------------------------------- C12
\* The call sent a request and the remote answered 201.
CreateConfirmed == reqs' # reqs /\ reqs'[Len(reqs')].ok

\* C12: every call of _create_application_emoji that the remote confirms
\* leaves the cache entry of the name equal to {the id the remote returned,
\* the fingerprint of the file}, every other cache entry as it was, and the
\* cache file equal to the in-memory cache.  (The directory does not change
\* during a run.)
C12_CreateRecorded ==
    [][ (CreateCall /\ CreateConfirmed) =>
            LET r == reqs'[Len(reqs')]
                f == image_files[i]
            IN  /\ r.name = f.stem
                /\ [id |-> r.id, name |-> r.name] \in remote' \ remote
                /\ DOMAIN emojis_cache' = (DOMAIN emojis_cache) \cup {r.name}
                /\ emojis_cache'[r.name] =
                      [id |-> r.id, key |-> Md5(dir[f].bytes)]
                /\ \A m \in (DOMAIN emojis_cache) \ {r.name} :
                      emojis_cache'[m] = emojis_cache[m]
                /\ cacheFile' = emojis_cache' ]_vars

\* A create was confirmed and recorded next to another cache entry that is
\* still there.
C12_Witness ==
    /\ pc = "loop"
    /\ \E c \in Creates :
          /\ reqs[c].ok
          /\ i = reqs[c].at + 1
          /\ reqs[c].name \in DOMAIN emojis_cache
          /\ emojis_cache[reqs[c].name].id = reqs[c].id
          /\ DOMAIN emojis_cache # {reqs[c].name}
          /\ cacheFile # file0

\* --------------------------------------------------------------------- C13
\* image_files[j] is a readable file whose name is listed and whose cached
\* fingerprint, as the run loaded it, is the fingerprint of the file.
InSync(j) ==
    LET f == image_files[j] IN
    /\ f.stem \in ListedNames
    /\ f.stem \in DOMAIN cache0
    /\ dir[f].kind = "file"
    /\ cache0[f.stem].key = Md5(dir[f].bytes)

\* No delete and no create request for the name of image_files[j], and the
\* name's cache entry is as the run loaded it.
Untouched(j) ==
    LET n == image_files[j].stem IN
    /\ DeletesFor(n) = {}
    /\ CreatesFor(n) = {}
    /\ n \in DOMAIN emojis_cache
    /\ emojis_cache[n] = cache0[n]

\* C13: for every local image whose name is in the remote listing and whose
\* cached fingerprint equals the fingerprint of the file, the run issues no
\* delete and no create request for that name and leaves its cache entry
\* unchanged.
C13_InSyncUntouched ==
    RunEnded => \A j \in 1..Len(image_files) : InSync(j) => Untouched(j)

\* The same, for names that only one image file has.
InSyncUntouchedWhenNamesUnique ==
    (RunEnded /\ UniqueNames) =>
        \A j \in 1..Len(image_files) : InSync(j) => Untouched(j)

\* --------------------------------------------------------------------- C14
\* The deletion pass is over and its save has been made.
PastDeletionPass == pc \in {"loop", "create", "done"}

\* Delete requests of the deletion pass that the remote refused.
FailedPassDeletes == { d \in Deletes : reqs[d].at = 0 /\ ~reqs[d].ok }

\* Number of entries of the error log with the given tag.
Logged(tag) == Cardinality({ k \in 1..Len(errors) : errors[k] = tag })

\* C14: a delete request of the deletion pass that the remote refuses is
\* logged; once the pass is over the name is a key neither of the cache nor of
\* the cache file; every other cached name with no local image still got its
\* one delete request; and the run goes through the whole creation/update
\* pass: when it ends every image file has been visited, and every readable,
\* non-empty image with an unlisted name has its create request.
C14_FailedDeleteDropsEntry ==
    /\ Logged("delete") = Cardinality({ d \in Deletes : ~reqs[d].ok })
    /\ (PastDeletionPass /\ FailedPassDeletes # {}) =>
          /\ \A d \in FailedPassDeletes :
                /\ reqs[d].name \notin DOMAIN emojis_cache
                /\ reqs[d].name \notin DOMAIN cacheFile
          /\ \A n \in (DOMAIN cache0) \ LocalNames :
                /\ Cardinality({ d \in DeletesFor(n) : reqs[d].at = 0 }) = 1
                /\ n \notin DOMAIN emojis_cache
    /\ (RunEnded /\ FailedPassDeletes # {}) =>
          /\ i = Len(image_files) + 1
          /\ \A j \in 1..Len(image_files) :
                LET f == image_files[j] IN
                (f.stem \notin ListedNames /\ dir[f].kind = "file"
                     /\ dir[f].bytes # <<>>)
                  => Cardinality(CreatesAt(j)) = 1

\* The run ended after the remote refused a delete of the deletion pass, and
\* the creation/update pass then created an emoji.
C14_Witness ==
    /\ RunEnded
    /\ \E d \in FailedPassDeletes : \E c \in Creates : c > d /\ reqs[c].ok
    /\ cacheFile # file0

\* --------------------------------------------------------------------- C15
\* The list request of this run was answered with a status other than 200.
ListFailed == Len(reqs) >= 1 /\ reqs[1].op = "list" /\ ~reqs[1].ok

\* The run carried on as with an empty remote up to the update pass: the
\* failure is logged, the listing is empty, every cached name with no local
\* image got its one delete request, and the update pass deleted nothing.
ListFailureAbsorbed ==
    /\ Logged("list") = 1
    /\ existing_emojis = <<>>
    /\ i = Len(image_files) + 1
    /\ \A n \in (DOMAIN cache0) \ LocalNames :
          Cardinality(DeletesFor(n)) = 1
    /\ \A d \in Deletes : reqs[d].at = 0

\* C15 as claimed: after a failed list request the run still ends, having run
\* the deletion pass from the cache, and the creation/update pass has issued
\* a create request for every readable local image and no delete request.
C15_FailedListCreatesEveryReadable ==
    (RunEnded /\ ListFailed) =>
        /\ ListFailureAbsorbed
        /\ \A j \in 1..Len(image_files) :
              dir[image_files[j]].kind = "file"
                  => Cardinality(CreatesAt(j)) = 1

\* C15 as amended: the same, with a create request for every readable local
\* image that is not empty, carrying its name and content, and none for an
\* empty or unreadable one.
C15_FailedListing ==
    (RunEnded /\ ListFailed) =>
        /\ ListFailureAbsorbed
        /\ \A j \in 1..Len(image_files) :
              LET f == image_files[j] IN
              IF dir[f].kind = "file" /\ dir[f].bytes # <<>>
              THEN /\ Cardinality(CreatesAt(j)) = 1
                   /\ \A c \in CreatesAt(j) :
                         /\ reqs[c].name = f.stem
                         /\ reqs[c].image = B64(dir[f].bytes)
              ELSE CreatesAt(j) = {}

\* A run ended after a failed list request while the remote held an emoji
\* with the name of a local image; the deletion pass deleted for a cached
\* name and the update pass sent a create for that image.
C15_Witness ==
    /\ RunEnded
    /\ ListFailed
    /\ \E d \in Deletes : reqs[d].at = 0
    /\ \E c \in Creates : ~reqs[c].ok /\ reqs[c].name \in RemoteNames

\* --------------------------------------------------------------------- C16
\* The order of the run's requests, each entered in the history with its
\* answer: the list request is the first and the only one; no deletion of
\* the deletion pass is pending once the update pass has begun, and each of
\* its deletes precedes every create; the requests follow the order of the
\* image files; the delete of a replacement precedes the create of that
\* replacement, and while that create is due the delete is the last request
\* answered.
RequestsOrdered ==
    /\ \A k \in 1..Len(reqs) : (reqs[k].op = "list") <=> (k = 1)
    /\ pc \in {"scan", "deleting", "loop", "create", "done"} => Len(reqs) >= 1
    /\ PastDeletionPass => emojis_to_delete = <<>>
    /\ \A d \in Deletes, c \in Creates : reqs[d].at = 0 => d < c
    /\ \A c \in Creates : reqs[c].at >= 1
    /\ \A k, l \in 1..Len(reqs) : k < l => reqs[k].at <= reqs[l].at
    /\ \A d \in Deletes, c \in Creates :
          (reqs[d].at >= 1 /\ reqs[d].at = reqs[c].at) => c = d + 1
    /\ pc = "create" =>
          /\ reqs[Len(reqs)].op = "delete"
          /\ reqs[Len(reqs)].at = i

\* A step sends at most one request, and the request is answered within the
\* step: the history grows by one answered request, stays, or is cleared when
\* the process ends.
OneRequestAtATime ==
    \/ reqs' = reqs
    \/ reqs' = <<>>
    \/ /\ Len(reqs') = Len(reqs) + 1
       /\ SubSeq(reqs', 1, Len(reqs)) = reqs

\* C16: the remote calls of a run are strictly sequential: the list request
\* completes before any other request starts, at most one request is
\* outstanding at any time, every delete of the deletion pass completes before
\* the first create request is issued, and in a replacement the delete for a
\* name completes before the create for that name starts.
C16_SequentialRequests == []RequestsOrdered /\ [][OneRequestAtATime]_vars

\* A run ended with a delete of the deletion pass, and a replacement (a delete
\* and a create for the same image file) in the update pass.
C16_Witness ==
    /\ RunEnded
    /\ \E d \in Deletes : reqs[d].at = 0
    /\ \E d \in Deletes, c \in Creates :
          reqs[d].at >= 1 /\ reqs[c].at = reqs[d].at

\* --------------------------------------------------------------------- C17
\* During the deletion pass the cache file is still the one the run loaded;
\* from the end of the pass to the end of the run it equals the in-memory
\* cache.
CachePersisted ==
    /\ pc = "deleting" => cacheFile = file0
    /\ PastDeletionPass => cacheFile = emojis_cache

\* The cache file changes only in the save that ends the deletion pass and in
\* a create call that the remote confirmed.
SavedOnlyThen ==
    cacheFile' # cacheFile =>
        \/ SaveAfterDeletions
        \/ CreateCall /\ CreateConfirmed

\* C17: the cache file is rewritten once after the deletion pass (not per
\* deletion) and after every successful create, so that from the end of the
\* deletion pass until the end of the run the cache file equals the in-memory
\* cache; in particular they are equal when the run ends.
C17_CachePersisted == []CachePersisted /\ [][SavedOnlyThen]_vars

\* The run ended after the deletion pass dropped an entry and a create added
\* one: the cache file holds the added entry and not the dropped one.
C17_Witness ==
    /\ RunEnded
    /\ \E d \in Deletes :
          /\ reqs[d].at = 0
          /\ reqs[d].name \in DOMAIN file0
          /\ reqs[d].name \notin DOMAIN cacheFile
    /\ \E c \in Creates :
          /\ reqs[c].ok
          /\ reqs[c].name \in DOMAIN cacheFile
          /\ cacheFile[reqs[c].name].id = reqs[c].id

\* --------------------------------------------------------------------- C18
\* When the run has ended, the keys of the cache are logical names of
\* supported image files of the directory, and no key the run loaded for
\* such a name is missing.
CacheKeysAreLocal ==
    RunEnded =>
        /\ DOMAIN emojis_cache \subseteq LocalNames
        /\ DOMAIN emojis_cache
              \subseteq { image_files[j].stem : j \in 1..Len(image_files) }
        /\ (DOMAIN cache0) \cap LocalNames \subseteq DOMAIN emojis_cache

\* A step of the creation/update pass removes no cache entry, and adds or
\* overwrites none but that of the image file it handles.
UpdatePassOnlyAdds ==
    pc \in {"loop", "create"} =>
        /\ DOMAIN emojis_cache \subseteq DOMAIN emojis_cache'
        /\ \A n \in DOMAIN emojis_cache' :
              (n \notin DOMAIN emojis_cache \/ emojis_cache'[n] # emojis_cache[n])
                  => n = image_files[i].stem

\* C18: at the end of every completed run every key of the cache is the
\* logical name of a supported image file of the directory listing the run
\* used; the creation/update pass only adds or overwrites entries of listed
\* names and never removes a cache entry.
C18_CacheKeysLocal == []CacheKeysAreLocal /\ [][UpdatePassOnlyAdds]_vars

\* The run ended after its deletion pass dropped an entry, and its update
\* pass deleted the listed emoji of a cached name whose entry is still there.
C18_Witness ==
    /\ RunEnded
    /\ ~((DOMAIN cache0) \subseteq LocalNames)
    /\ \E d \in Deletes :
          /\ reqs[d].at >= 1
          /\ reqs[d].ok
          /\ reqs[d].name \in DOMAIN cache0
          /\ reqs[d].name \in DOMAIN emojis_cache

\* --------------------------------------------------------------------- C19
\* C19: within a run no remote emoji id receives more than one delete request
\* and no logical name receives more than one create request, whatever the
\* directory listing, two files sharing a logical name included.
C19_NoRepeatedRequest ==
    /\ \A d, e \in Deletes : reqs[d].id = reqs[e].id => d = e
    /\ \A c, e \in Creates : reqs[c].name = reqs[e].name => c = e

\* The same, from a first use, for listings in which no two image files
\* share a logical name and a remote that holds no two emojis of one name.
NoRepeatedRequestWhenNamesUnique ==
    (UniqueNames /\ uniqueNames) => C19_NoRepeatedRequest

====
